---- MODULE Spec2Model ----
(***************************************************************************)
(* A model of phiprof's TimerTree (src/timertree.cpp): the node sequence   *)
(* `timers`, the cursor `currentId`, and the operations on them.           *)
(*                                                                         *)
(* Node ids are 0-based as in the code; node i is stored at timers[i+1].   *)
(* TimerData (timerdata.hpp) is not part of the sources at hand: its       *)
(* constructor, start(), stop() and accessors are modelled from the        *)
(* specification's section 4.1 and are marked so below.                    *)
(***************************************************************************)
EXTENDS Integers, Sequences, FiniteSets, TLC

\* ---------------------------------------------------------------- bounds
\* calls made on one tree in one run
MaxCalls == 4
\* number of frames the call stack holds before it is exhausted
MaxStack == 3
\* threads of a team
MaxThreads == 3

\* ------------------------------------------------------------ input sets
Labels == {"A", "B"}
GroupLists == {<<>>, <<"G">>}
WorkUnitLabels == {""}
\* clock ticks between a start and the stop that follows it
Elapsed == {0, 1}

VARIABLES
  timers,      \* std::vector<TimerData> timers
  currentId,   \* int currentId
  callStack,   \* frames of TimerTree::stop overloads in progress
  status,      \* "running", "undefined" (after an out-of-bounds write), "stack_overflow"
  debug,       \* whether the build defines DEBUG_PHIPROF_TIMERS
  calls,       \* number of calls made so far
  nest,        \* history: the start calls not yet stopped, innermost last
  last,        \* history: the last call made
  team,        \* number of threads of the team in the parallel region
  tpc,         \* where each thread of the team is in initializeTimer
  tid,         \* each thread's local `int id`
  tret,        \* what each thread returned
  tcall,       \* the collective call: its arguments, and history of its start
  nodeHash,    \* what timers[i].getHash() returns, for each node
  result,      \* the last query made and what it returned
  timersB,     \* timers of a second, independently constructed tree
  currentIdB,  \* its currentId
  statusB,     \* its status
  renamed      \* whether a call on the second tree was given another string

teamVars == <<team, tpc, tid, tret, tcall>>
queryVars == <<nodeHash, result>>
pairVars == <<timersB, currentIdB, statusB, renamed>>
vars == <<timers, currentId, callStack, status, debug, calls, nest, last,
          teamVars, queryVars, pairVars>>

\* ------------------------------------------------- TimerData (spec 4.1)
TimerData(parentId, id, label, groups, workUnitLabel) ==
  [ id |-> id, parentId |-> parentId, label |-> label, groups |-> groups,
    workUnitLabel |-> workUnitLabel, childIds |-> <<>>,
    active |-> FALSE, count |-> 0, time |-> 0, startTime |-> 0 ]

\* TimerData::start(): marks the node active, counts the call; returns id
TimerDataStart(n) == [n EXCEPT !.active = TRUE, !.count = @ + 1]

\* TimerData::stop(): marks the node inactive and adds the elapsed time;
\* on a node that is not active it only reports; returns parentId
TimerDataStop(n, elapsed) ==
  IF n.active THEN [n EXCEPT !.active = FALSE, !.time = @ + elapsed] ELSE n

\* TimerData::resetTime(resetWallTime): zeroes the accumulated time and, given
\* a wall time, moves the start marker of an active node to it
TimerDataResetTime(n, resetWallTime) ==
  [n EXCEPT !.time = 0,
            !.startTime = IF n.active /\ resetWallTime # 0 THEN resetWallTime ELSE @]

\* TimerData::shiftActiveStartTime(shiftTime): pushes the start marker of an
\* active node forward
TimerDataShiftActiveStartTime(n, shiftTime) ==
  IF n.active THEN [n EXCEPT !.startTime = @ + shiftTime] ELSE n

\* TimerData::getAverageTime()
TimerDataAverageTime(n) == n.time \div (IF n.count > 1 THEN n.count ELSE 1)

\* --------------------------------------------------------------- helpers
Valid(tm, i) == i \in 0 .. Len(tm) - 1
Node(tm, i) == tm[i + 1]
\* what an out-of-bounds or uninitialized int may hold: a window of int
\* that reaches below, into and above the valid ids
GarbageInts(tm) == -1 .. Len(tm)

\* ------------------------------------------------------------ TimerTree
\* TimerTree::TimerTree()
RootGroups == <<"Total">>
Constructed ==
  [ timers |-> << TimerDataStart(TimerData(-1, 0, "total", RootGroups, "")) >>,
    currentId |-> -1 ]

\* the loop of getChildId over the child ids, first match wins
RECURSIVE FirstChildWithLabel(_, _, _)
FirstChildWithLabel(tm, ids, label) ==
  IF ids = <<>> THEN -1
  ELSE IF Node(tm, Head(ids)).label = label THEN Head(ids)
  ELSE FirstChildWithLabel(tm, Tail(ids), label)

\* TimerTree::getChildId(label), with the cursor cur
getChildId(tm, cur, label) == FirstChildWithLabel(tm, Node(tm, cur).childIds, label)

\* the values getChildId may return: timers[currentId] out of bounds reads
\* memory that is not a node
getChildIdResults(tm, cur, label) ==
  IF Valid(tm, cur) THEN {getChildId(tm, cur, label)} ELSE GarbageInts(tm)

\* timers.push_back(TimerData(&(timers[currentId]), id, label, groups, workUnit)):
\* the node's constructor registers it with its parent
PushBack(tm, cur, label, groups, workUnit) ==
  Append([tm EXCEPT ![cur + 1].childIds = Append(@, Len(tm))],
         TimerData(Node(tm, cur).id, Len(tm), label, groups, workUnit))

\* with timers[currentId] out of bounds the constructor writes through a
\* pointer that is not a node and reads the parent id from there
PushBackResults(tm, cur, label, groups, workUnit) ==
  IF Valid(tm, cur) THEN {PushBack(tm, cur, label, groups, workUnit)}
  ELSE {Append(tm, TimerData(p, Len(tm), label, groups, workUnit)) : p \in GarbageInts(tm)}

\* the body of the master region of initializeTimer: lookup or create.
\* undefined: the call wrote out of bounds, after which nothing is known
LookupOrCreate(tm, cur, label, groups, workUnit) ==
  UNION { IF id < 0
            THEN {[timers |-> t, id |-> Len(tm), undefined |-> ~Valid(tm, cur)] :
                     t \in PushBackResults(tm, cur, label, groups, workUnit)}
            ELSE {[timers |-> tm, id |-> id, undefined |-> FALSE]} :
          id \in getChildIdResults(tm, cur, label) }

\* timers[id].start() with its return value; out of bounds it writes outside
\* the vector and returns what it reads there
StartNodeResults(tm, id) ==
  IF Valid(tm, id)
  THEN {[timers |-> [tm EXCEPT ![id + 1] = TimerDataStart(@)],
         ret |-> Node(tm, id).id, undefined |-> FALSE]}
  ELSE {[timers |-> tm, ret |-> g, undefined |-> TRUE] : g \in GarbageInts(tm)}

\* timers[id].stop() with its return value
StopNodeResults(tm, id, elapsed) ==
  IF Valid(tm, id)
  THEN {[timers |-> [tm EXCEPT ![id + 1] = TimerDataStop(@, elapsed)],
         ret |-> Node(tm, id).parentId, undefined |-> FALSE]}
  ELSE {[timers |-> tm, ret |-> g, undefined |-> TRUE] : g \in GarbageInts(tm)}

\* a start(int id) that starts the node and leaves the cursor where it was
startByIdKeepingCursor(tm, cur, id) ==
  { [timers |-> s.timers, currentId |-> cur, ret |-> (cur = id),
     undefined |-> s.undefined] : s \in StartNodeResults(tm, id) }

\* TimerTree::start(int id)
startById(tm, cur, id) ==
  { [timers |-> s.timers, currentId |-> s.ret, ret |-> (s.ret = id),
     undefined |-> s.undefined] : s \in StartNodeResults(tm, id) }

\* TimerTree::start(const std::string &label), called by one thread
startByLabel(tm, cur, label) ==
  UNION { IF o.undefined
            THEN {[timers |-> o.timers, currentId |-> o.id, ret |-> TRUE,
                   undefined |-> TRUE]}
            ELSE {[timers |-> s.timers, currentId |-> o.id, ret |-> (s.ret # 0),
                   undefined |-> s.undefined] :
                     s \in StartNodeResults(o.timers, o.id)} :
          o \in LookupOrCreate(tm, cur, label, <<>>, "") }

\* a build in which no overload checks the id
NoIdCheck(dbg, cur, id) == FALSE

\* the id check of the stop overloads, compiled in debug builds only
IdMismatch(dbg, cur, id) == dbg /\ id # cur

\* a stop that stops the node and leaves the cursor on it
stopCurrentKeepingCursor(tm, cur, elapsed) ==
  { [timers |-> s.timers, currentId |-> cur, ret |-> TRUE,
     undefined |-> s.undefined] : s \in StopNodeResults(tm, cur, elapsed) }

\* currentId = timers[currentId].stop(); return true;
stopCurrent(tm, cur, elapsed) ==
  { [timers |-> s.timers, currentId |-> s.ret, ret |-> TRUE,
     undefined |-> s.undefined] : s \in StopNodeResults(tm, cur, elapsed) }

\* TimerTree::stop(const int id)
stopById(dbg, tm, cur, id, elapsed) ==
  IF IdMismatch(dbg, cur, id)
  THEN {[timers |-> tm, currentId |-> cur, ret |-> FALSE, undefined |-> FALSE]}
  ELSE stopCurrent(tm, cur, elapsed)

\* TimerTree::stop(const std::string &label)
stopByLabel(tm, cur, label, elapsed) == stopCurrent(tm, cur, elapsed)

\* ----------------------------------------------------- history variables
\* the last call made: its arguments (label, id), the cursor it was made at
\* (node), whether that cursor named an active node and a by-id stop named
\* the cursor (pre), whether it has returned (done) and what it returned
\* (retId, retOk); for a stop, the start call it closes (cur, lifo, kids)
\* and whether it names the timer that call started (match)
NoCall == [op |-> "none", label |-> "", id |-> -1, node |-> -1, pre |-> FALSE,
           done |-> TRUE, retId |-> -1, retOk |-> TRUE,
           match |-> FALSE, cur |-> -1, lifo |-> FALSE, kids |-> FALSE]

Top(s) == s[Len(s)]

ActiveAt(tm, i) == Valid(tm, i) /\ Node(tm, i).active

CallRecord(op, label, id) ==
  [NoCall EXCEPT !.op = op, !.label = label, !.id = id, !.node = currentId,
                 !.pre = ActiveAt(timers, currentId)]

\* a start call made with the cursor at cur that started node `started`:
\* lifo, the cursor named a node; kids, the started node is a child of it
Nested(tm, cur, started) ==
  LET kids == Valid(tm, started) /\ Node(tm, started).parentId = cur
  IN  Append([i \in 1 .. Len(nest) |-> [nest[i] EXCEPT !.kids = @ /\ kids]],
             [cur |-> cur, id |-> started, lifo |-> Valid(tm, cur), kids |-> kids])

\* a stop call closes the innermost open start call; match says whether it
\* names the timer that call started
Unnested(match) ==
  IF nest = <<>> THEN nest
  ELSE [i \in 1 .. Len(nest) - 1 |->
          [nest[i] EXCEPT !.lifo = @ /\ match, !.kids = @ /\ match]]

StopRecord(op, label, id, match) ==
  IF nest = <<>> THEN CallRecord(op, label, id)
  ELSE [CallRecord(op, label, id) EXCEPT !.match = match, !.cur = Top(nest).cur,
          !.lifo = Top(nest).lifo, !.kids = Top(nest).kids]

\* every thread of the team has left the collective call (or none was made)
TeamDone == \A t \in DOMAIN tpc : tpc[t] = "returned"
NoTeamCall == [label |-> "", groups |-> <<>>, workUnit |-> "",
               pre |-> FALSE, had |-> FALSE, len |-> 0]

Idle == status = "running" /\ callStack = <<>> /\ TeamDone
Callable == Idle /\ calls < MaxCalls

\* ---------------------------------------------------------------- actions
\* the last query or administrative call: its arguments (id, group, reverse),
\* what it returned (value), and the timers and cursor it was made on
NoQuery == [op |-> "none", id |-> -1, group |-> "", reverse |-> FALSE, value |-> 0,
            before |-> <<>>, cur |-> -1]

\* no call in progress, no call made
NoCalls ==
  /\ callStack = <<>>
  /\ status = "running"
  /\ debug \in BOOLEAN
  /\ calls = 0
  /\ nest = <<>>
  /\ last = NoCall
  /\ team = 0
  /\ tpc = <<>>
  /\ tid = <<>>
  /\ tret = <<>>
  /\ tcall = NoTeamCall
  /\ result = NoQuery
  /\ timersB = Constructed.timers
  /\ currentIdB = Constructed.currentId
  /\ statusB = "running"
  /\ renamed = FALSE

Init ==
  /\ timers = Constructed.timers
  /\ currentId = Constructed.currentId
  /\ NoCalls
  /\ nodeHash = <<>>

\* initializeTimer(label, groups, workUnit) called by a team of one thread
InitializeTimer(label, groups, workUnit) ==
  /\ Callable
  /\ \E o \in LookupOrCreate(timers, currentId, label, groups, workUnit) :
       /\ timers' = o.timers
       /\ status' = IF o.undefined THEN "undefined" ELSE "running"
       /\ last' = [CallRecord("initializeTimer", label, -1) EXCEPT !.retId = o.id]
  /\ calls' = calls + 1
  /\ UNCHANGED <<currentId, callStack, debug, nest, teamVars, queryVars, pairVars>>

StartId(id) ==
  /\ Callable
  /\ \E o \in startById(timers, currentId, id) :
       /\ timers' = o.timers
       /\ currentId' = o.currentId
       /\ status' = IF o.undefined THEN "undefined" ELSE "running"
       /\ nest' = Nested(timers, currentId, id)
       /\ last' = [CallRecord("start(id)", "", id) EXCEPT !.retOk = o.ret]
  /\ calls' = calls + 1
  /\ UNCHANGED <<callStack, debug, teamVars, queryVars, pairVars>>

StartLabel(label) ==
  /\ Callable
  /\ \E o \in startByLabel(timers, currentId, label) :
       /\ timers' = o.timers
       /\ currentId' = o.currentId
       /\ status' = IF o.undefined THEN "undefined" ELSE "running"
       /\ nest' = Nested(o.timers, currentId, o.currentId)
       /\ last' = [CallRecord("start(label)", label, -1) EXCEPT !.retOk = o.ret]
  /\ calls' = calls + 1
  /\ UNCHANGED <<callStack, debug, teamVars, queryVars, pairVars>>

StopId(id, elapsed) ==
  /\ Callable
  /\ \E o \in stopById(debug, timers, currentId, id, elapsed) :
       /\ timers' = o.timers
       /\ currentId' = o.currentId
       /\ status' = IF o.undefined THEN "undefined" ELSE "running"
       /\ last' = [StopRecord("stop(id)", "", id, nest # <<>> /\ Top(nest).id = id)
                     EXCEPT !.retOk = o.ret, !.pre = @ /\ id = currentId]
  /\ nest' = Unnested(nest # <<>> /\ Top(nest).id = id)
  /\ calls' = calls + 1
  /\ UNCHANGED <<callStack, debug, teamVars, queryVars, pairVars>>

\* whether the innermost open start call started a timer with this label
TopLabelled(label) ==
  /\ nest # <<>>
  /\ Valid(timers, Top(nest).id)
  /\ Node(timers, Top(nest).id).label = label

StopLabel(label, elapsed) ==
  /\ Callable
  /\ \E o \in stopByLabel(timers, currentId, label, elapsed) :
       /\ timers' = o.timers
       /\ currentId' = o.currentId
       /\ status' = IF o.undefined THEN "undefined" ELSE "running"
       /\ last' = [StopRecord("stop(label)", label, -1, TopLabelled(label))
                     EXCEPT !.retOk = o.ret]
  /\ nest' = Unnested(TopLabelled(label))
  /\ calls' = calls + 1
  /\ UNCHANGED <<callStack, debug, teamVars, queryVars, pairVars>>

\* the overload a frame of the call stack calls next: stop(int, double)
\* calls stop(currentId, workUnits), which is itself, and the two overloads
\* with a work unit label call stop(currentId, workUnits, workUnitLabel)
Callee(frame) ==
  IF frame = "stop(id,w)" THEN "stop(id,w)" ELSE "stop(id,w,l)"

\* entering stop(int id, double workUnits) or
\* stop(int id, double workUnits, const std::string &workUnitLabel):
\* the id check, then the call on the way to `currentId = stop(...)`
EnterStopIdWork(frame, id) ==
  /\ Callable
  /\ calls' = calls + 1
  /\ IF IdMismatch(debug, currentId, id)
     THEN /\ last' = [CallRecord(frame, "", id) EXCEPT !.retOk = FALSE, !.pre = FALSE]
          /\ UNCHANGED callStack
     ELSE /\ last' = [CallRecord(frame, "", id) EXCEPT !.done = FALSE,
                                                       !.pre = @ /\ id = currentId]
          /\ callStack' = <<frame>>
  /\ UNCHANGED <<timers, currentId, status, debug, nest, teamVars, queryVars, pairVars>>

StopIdWork(id) == EnterStopIdWork("stop(id,w)", id)

StopIdWorkLabel(id, workUnitLabel) == EnterStopIdWork("stop(id,w,l)", id)

\* stop(const std::string &label, double workUnits, const std::string &workUnitLabel)
StopLabelWork(label, workUnitLabel) ==
  /\ Callable
  /\ calls' = calls + 1
  /\ callStack' = <<"stop(label,w,l)">>
  /\ last' = [CallRecord("stop(label,w,l)", label, -1) EXCEPT !.done = FALSE]
  /\ UNCHANGED <<timers, currentId, status, debug, nest, teamVars, queryVars, pairVars>>

\* the call a frame makes: the callee is entered with id = currentId, so its
\* id check passes, and it makes the same call again; no frame returns
Recurse ==
  /\ status = "running"
  /\ callStack # <<>>
  /\ IF Len(callStack) < MaxStack
     THEN /\ callStack' = Append(callStack, Callee(Top(callStack)))
          /\ UNCHANGED status
     ELSE /\ status' = "stack_overflow"
          /\ UNCHANGED callStack
  /\ UNCHANGED <<timers, currentId, debug, calls, nest, last, teamVars, queryVars, pairVars>>

Ids == 0 .. Len(timers) - 1

\* ------------------------------------------------------------- getHash
\* unsigned long (64 bits) as four 16-bit limbs, least significant first
LimbBase == 65536
IntMax == 2147483647

U64(n) == <<n % LimbBase, n \div LimbBase, 0, 0>>

\* hashValue += x, wrapping at 2^64
U64Add(a, b) ==
  LET s1 == a[1] + b[1]
      s2 == a[2] + b[2] + s1 \div LimbBase
      s3 == a[3] + b[3] + s2 \div LimbBase
      s4 == a[4] + b[4] + s3 \div LimbBase
  IN  <<s1 % LimbBase, s2 % LimbBase, s3 % LimbBase, s4 % LimbBase>>

\* (a + b) % IntMax for a, b < IntMax, without leaving 32 bits
AddModIntMax(a, b) == IF a >= IntMax - b THEN a - (IntMax - b) ELSE a + b

\* (r * 65536) % IntMax for r < IntMax: 2^31 = 1 modulo IntMax
ShiftModIntMax(r) == ((r \div 32768) + (r % 32768) * LimbBase) % IntMax

\* hashValue % std::numeric_limits<int>::max()
U64ModIntMax(a) ==
  LET r4 == a[4]
      r3 == AddModIntMax(ShiftModIntMax(r4), a[3])
      r2 == AddModIntMax(ShiftModIntMax(r3), a[2])
  IN  AddModIntMax(ShiftModIntMax(r2), a[1])

\* the loop of getHash over the child ids
RECURSIVE AddChildHashes(_, _, _)
AddChildHashes(hs, ids, hashValue) ==
  IF ids = <<>> THEN hashValue
  ELSE AddChildHashes(hs, Tail(ids), U64Add(hashValue, hs[Head(ids) + 1]))

\* TimerTree::getHash(id); hs[i + 1] is timers[i].getHash()
getHash(hs, tm, id) ==
  LET hashValue == AddChildHashes(hs, Node(tm, id).childIds, hs[id + 1])
  IN  IF hashValue = U64(0) THEN 1 ELSE U64ModIntMax(hashValue)

\* ------------------------------------------------- trees the program builds
\* the timers of n nodes that start(id) and initializeTimer build from the
\* constructed tree, with labels and groups from the given sets
RECURSIVE TreesOfSize(_, _, _)
TreesOfSize(n, labels, groupLists) ==
  IF n = 1 THEN {Constructed.timers}
  ELSE { PushBack(tm, cur, l, g, "") :
           <<tm, cur, l, g>> \in
             { x \in TreesOfSize(n - 1, labels, groupLists) \X (0 .. n - 2)
                       \X labels \X groupLists :
                 getChildId(x[1], x[2], x[3]) < 0 } }

TreesUpTo(n, labels, groupLists) ==
  UNION { TreesOfSize(k, labels, groupLists) : k \in 1 .. n }

\* ----------------------------------------------------------- hash queries
\* nodes of the trees whose hash is taken
MaxHashNodes == 3

\* node-level hash values: small ones, the multiples of IntMax and their
\* neighbours, and the top of the range
HashValues ==
  { U64(0), U64(1), U64(IntMax - 1), U64(IntMax),
    <<65534, 65535, 0, 0>>, <<65535, 65535, 65535, 65535>> }

HashInit ==
  /\ timers \in TreesUpTo(MaxHashNodes, Labels, {<<>>})
  /\ currentId = 0
  /\ NoCalls
  /\ nodeHash \in [1 .. Len(timers) -> HashValues]

GetHash(id) ==
  /\ result' = [NoQuery EXCEPT !.op = "getHash", !.id = id,
                               !.value = getHash(nodeHash, timers, id)]
  /\ UNCHANGED <<timers, currentId, callStack, status, debug, calls, nest, last,
                 teamVars, nodeHash, pairVars>>

HashNext == \E id \in Ids : GetHash(id)

HashSpec == HashInit /\ [][HashNext]_vars

\* --------------------------------------------------------- getGroupTime
\* the loop over timers[id].getGroups()
InGroups(groups, group) == \E i \in 1 .. Len(groups) : groups[i] = group

\* getGroupTime that adds the children's group time to a node of the group
RECURSIVE getGroupTimeOfAll(_, _, _)
getGroupTimeOfAll(tm, group, id) ==
  LET RECURSIVE OfChildren(_)
      OfChildren(ids) ==
        IF ids = <<>> THEN 0
        ELSE getGroupTimeOfAll(tm, group, Head(ids)) + OfChildren(Tail(ids))
  IN  (IF InGroups(Node(tm, id).groups, group)
         THEN TimerDataAverageTime(Node(tm, id)) ELSE 0)
      + OfChildren(Node(tm, id).childIds)

\* TimerTree::getGroupTime(group, id)
RECURSIVE getGroupTime(_, _, _)
getGroupTime(tm, group, id) ==
  LET RECURSIVE OfChildren(_)
      OfChildren(ids) ==
        IF ids = <<>> THEN 0
        ELSE getGroupTime(tm, group, Head(ids)) + OfChildren(Tail(ids))
  IN  IF InGroups(Node(tm, id).groups, group)
      THEN TimerDataAverageTime(Node(tm, id))
      ELSE OfChildren(Node(tm, id).childIds)

\* nodes of the trees whose group time is taken
MaxGroupNodes == 3

\* start counts and accumulated times a node may have
Timings == { [count |-> 1, time |-> 1], [count |-> 1, time |-> 2],
             [count |-> 2, time |-> 6] }
QueryGroups == {"G", "Total"}

WithTimings(tm, f) ==
  [i \in 1 .. Len(tm) |-> [tm[i] EXCEPT !.count = f[i].count, !.time = f[i].time]]

GroupInit ==
  /\ \E tm \in TreesUpTo(MaxGroupNodes, Labels, GroupLists) :
       \E f \in [1 .. Len(tm) -> Timings] : timers = WithTimings(tm, f)
  /\ currentId = 0
  /\ NoCalls
  /\ nodeHash = <<>>

GetGroupTime(group, id) ==
  /\ result' = [NoQuery EXCEPT !.op = "getGroupTime", !.id = id, !.group = group,
                               !.value = getGroupTime(timers, group, id)]
  /\ UNCHANGED <<timers, currentId, callStack, status, debug, calls, nest, last,
                 teamVars, nodeHash, pairVars>>

GroupNext == \E g \in QueryGroups, id \in Ids : GetGroupTime(g, id)

GroupSpec == GroupInit /\ [][GroupNext]_vars

\* ------------------------------------------- the team in initializeTimer
\* a region that every thread of the team executes
EveryThread(t) == TRUE

\* #pragma omp master: the region is executed by thread 0 of the team
IsMaster(t) == t = 0

Unset == [set |-> FALSE, val |-> 0]

\* every thread of a team of n calls initializeTimer(label, groups, workUnit);
\* each declares its own `int id`, which holds nothing yet
TeamCall(n, label, groups, workUnit) ==
  /\ Callable
  /\ calls' = calls + 1
  /\ team' = n
  /\ tpc' = [t \in 0 .. n - 1 |-> "enter"]
  /\ tid' = [t \in 0 .. n - 1 |-> Unset]
  /\ tret' = [t \in 0 .. n - 1 |-> -1]
  /\ tcall' = [label |-> label, groups |-> groups, workUnit |-> workUnit,
               pre |-> Valid(timers, currentId),
               had |-> Valid(timers, currentId)
                         /\ getChildId(timers, currentId, label) >= 0,
               len |-> Len(timers)]
  /\ UNCHANGED <<timers, currentId, callStack, status, debug, nest, last, queryVars, pairVars>>

\* a thread reaches the master region: the master runs
\* `id = getChildId(label)`, the others skip the region
TeamLookup(t) ==
  /\ status = "running"
  /\ tpc[t] = "enter"
  /\ IF IsMaster(t)
     THEN \E id \in getChildIdResults(timers, currentId, tcall.label) :
            /\ tid' = [tid EXCEPT ![t] = [set |-> TRUE, val |-> id]]
            /\ tpc' = [tpc EXCEPT ![t] = IF id < 0 THEN "create" ELSE "barrier"]
     ELSE /\ tpc' = [tpc EXCEPT ![t] = "barrier"]
          /\ UNCHANGED tid
  /\ UNCHANGED <<timers, currentId, callStack, status, debug, calls, nest, last,
                 team, tret, tcall, queryVars, pairVars>>

\* `id = timers.size(); timers.push_back(...)` in the master region
TeamCreate(t) ==
  /\ status = "running"
  /\ tpc[t] = "create"
  /\ \E tm \in PushBackResults(timers, currentId, tcall.label, tcall.groups,
                                tcall.workUnit) :
       timers' = tm
  /\ status' = IF Valid(timers, currentId) THEN "running" ELSE "undefined"
  /\ tid' = [tid EXCEPT ![t] = [set |-> TRUE, val |-> Len(timers)]]
  /\ tpc' = [tpc EXCEPT ![t] = "barrier"]
  /\ UNCHANGED <<currentId, callStack, debug, calls, nest, last, team, tret, tcall,
                 queryVars, pairVars>>

\* a barrier that holds no thread back
NoBarrier(t) == TRUE

\* #pragma omp barrier: every thread of the team has reached the barrier
BarrierReached(t) == \A u \in DOMAIN tpc : tpc[u] \in {"barrier", "returned"}

\* #pragma omp barrier, then `return id`: a thread leaves the barrier once
\* every thread of the team has reached it; a local id that was never
\* assigned holds an indeterminate value
TeamReturn(t) ==
  /\ status = "running"
  /\ tpc[t] = "barrier"
  /\ BarrierReached(t)
  /\ \E v \in (IF tid[t].set THEN {tid[t].val} ELSE GarbageInts(timers)) :
       tret' = [tret EXCEPT ![t] = v]
  /\ tpc' = [tpc EXCEPT ![t] = "returned"]
  /\ UNCHANGED <<timers, currentId, callStack, status, debug, calls, nest, last,
                 team, tid, tcall, queryVars, pairVars>>


Next ==
  \/ \E l \in Labels, g \in GroupLists, w \in WorkUnitLabels : InitializeTimer(l, g, w)
  \/ \E id \in Ids : StartId(id)
  \/ \E l \in Labels : StartLabel(l)
  \/ \E id \in Ids, e \in Elapsed : StopId(id, e)
  \/ \E l \in Labels, e \in Elapsed : StopLabel(l, e)
  \/ \E id \in Ids : StopIdWork(id)
  \/ \E id \in Ids, w \in WorkUnitLabels : StopIdWorkLabel(id, w)
  \/ \E l \in Labels, w \in WorkUnitLabels : StopLabelWork(l, w)
  \/ Recurse

Spec == Init /\ [][Next]_vars

\* a program that moves the cursor with start(id) in its serial part and calls
\* initializeTimer from the threads of its parallel regions
TeamNext ==
  \/ \E id \in Ids : StartId(id)
  \/ \E n \in 1 .. MaxThreads, l \in Labels, g \in GroupLists, w \in WorkUnitLabels :
       TeamCall(n, l, g, w)
  \/ \E t \in DOMAIN tpc : TeamLookup(t)
  \/ \E t \in DOMAIN tpc : TeamCreate(t)
  \/ \E t \in DOMAIN tpc : TeamReturn(t)

TeamSpec == Init /\ [][TeamNext]_vars

\* ------------------------------------------- two trees, the same calls
\* TimerData::getHash() (spec 4.1): a combination of the bytes of the label,
\* of every group in order, and of the work unit label
StringBytes(str) ==
  CASE str = "" -> <<>>
    [] str = "A" -> <<65>>
    [] str = "B" -> <<66>>
    [] str = "C" -> <<67>>
    [] str = "G" -> <<71>>
    [] str = "H" -> <<72>>
    [] str = "total" -> <<116, 111, 116, 97, 108>>
    [] str = "Total" -> <<84, 111, 116, 97, 108>>

RECURSIVE BytesHash(_, _)
BytesHash(bytes, h) ==
  IF bytes = <<>> THEN h ELSE BytesHash(Tail(bytes), (h * 31 + Head(bytes)) % 65521)

RECURSIVE StringsHash(_, _)
StringsHash(strs, h) ==
  IF strs = <<>> THEN h
  ELSE StringsHash(Tail(strs), h * 31 + BytesHash(StringBytes(Head(strs)), 7))

TimerDataGetHash(n) ==
  U64(StringsHash(<<n.label>> \o n.groups \o <<n.workUnitLabel>>, 0))

NodeHashes(tm) == [i \in 1 .. Len(tm) |-> TimerDataGetHash(tm[i])]

\* the strings a call on the second tree may be given in place of (l, g):
\* the same, or, once, another label or another group
OtherLabel == "C"
OtherGroups == <<"H">>
Variants(l, g) ==
  {<<l, g>>} \cup (IF renamed THEN {}
                   ELSE {<<OtherLabel, g>>} \cup
                        (IF g = <<>> THEN {} ELSE {<<l, OtherGroups>>}))

\* calls allowed on the pair of trees
MaxPairCalls == 5
PairCallable ==
  /\ status = "running" /\ statusB = "running"
  /\ calls < MaxPairCalls

PairResult(o, oB, args, argsB) ==
  /\ timers' = o.timers
  /\ timersB' = oB.timers
  /\ status' = IF o.undefined THEN "undefined" ELSE "running"
  /\ statusB' = IF oB.undefined THEN "undefined" ELSE "running"
  /\ renamed' = (renamed \/ args # argsB)
  /\ calls' = calls + 1
  /\ UNCHANGED <<callStack, debug, nest, last, teamVars, queryVars>>

\* initializeTimer on both trees
PairInitializeTimer(l, g) ==
  /\ PairCallable
  /\ \E v \in Variants(l, g) :
       \E o \in LookupOrCreate(timers, currentId, l, g, ""),
          oB \in LookupOrCreate(timersB, currentIdB, v[1], v[2], "") :
         /\ PairResult(o, oB, <<l, g>>, v)
         /\ UNCHANGED <<currentId, currentIdB>>

\* start(label) on both trees
PairStartLabel(l) ==
  /\ PairCallable
  /\ \E v \in Variants(l, <<>>) :
       \E o \in startByLabel(timers, currentId, l),
          oB \in startByLabel(timersB, currentIdB, v[1]) :
         /\ PairResult(o, oB, <<l, <<>>>>, v)
         /\ currentId' = o.currentId
         /\ currentIdB' = oB.currentId

\* start(id) on both trees
PairStartId(id) ==
  /\ PairCallable
  /\ \E o \in startById(timers, currentId, id),
        oB \in startById(timersB, currentIdB, id) :
       /\ PairResult(o, oB, id, id)
       /\ currentId' = o.currentId
       /\ currentIdB' = oB.currentId

\* stop(id) on both trees
PairStopId(id, elapsed) ==
  /\ PairCallable
  /\ \E o \in stopById(debug, timers, currentId, id, elapsed),
        oB \in stopById(debug, timersB, currentIdB, id, elapsed) :
       /\ PairResult(o, oB, id, id)
       /\ currentId' = o.currentId
       /\ currentIdB' = oB.currentId

PairNext ==
  \/ \E l \in Labels, g \in GroupLists : PairInitializeTimer(l, g)
  \/ \E l \in Labels : PairStartLabel(l)
  \/ \E id \in Ids : PairStartId(id)
  \/ \E id \in Ids, e \in Elapsed : PairStopId(id, e)

PairSpec == Init /\ [][PairNext]_vars

\* ----------------------------------------------------------------- claims
StopOps == {"stop(id)", "stop(label)", "stop(id,w)", "stop(id,w,l)", "stop(label,w,l)"}

\* C3: immediately after construction timers holds exactly the root node
\* (id 0, label "total", groups {"Total"}, parent -1), the root is active,
\* and currentId is 0.
C3_ConstructedCursorIsRoot ==
  calls = 0 =>
    /\ Len(timers) = 1
    /\ Node(timers, 0).id = 0
    /\ Node(timers, 0).label = "total"
    /\ Node(timers, 0).groups = <<"Total">>
    /\ Node(timers, 0).parentId = -1
    /\ Node(timers, 0).active
    /\ currentId = 0

C5_EveryStopOverloadCompletes ==
  (last.op \in StopOps /\ last.pre) =>
    /\ status # "stack_overflow"
    /\ last.done =>
         /\ ~Node(timers, last.node).active
         /\ currentId = Node(timers, last.node).parentId

\* C6: initializeTimer called twice in a row with the same label returns the
\* same id both times and does not change the length of timers the second
\* time (no call made in between, so currentId is unchanged).
C6_SecondInitializeTimerFindsTheFirst ==
  [][ ( /\ last.op = "initializeTimer"
        /\ calls' = calls + 1
        /\ last'.op = "initializeTimer"
        /\ last'.label = last.label )
      => (last'.retId = last.retId /\ Len(timers') = Len(timers)) ]_vars

\* the collective call made with the cursor on an existing node has returned
\* in every thread
TeamCallDone == team > 0 /\ TeamDone /\ tcall.pre /\ status = "running"

\* C1: a collective initializeTimer(label, ...) with the cursor on an
\* existing node appends exactly one node if the cursor node had no child
\* with that label and none if it had one, whatever the team size and the
\* interleaving; at no moment of the call are there more.
C1_OneNodePerCollectiveCall ==
  (team > 0 /\ tcall.pre) =>
    /\ Len(timers) <= tcall.len + (IF tcall.had THEN 0 ELSE 1)
    /\ TeamDone => Len(timers) = tcall.len + (IF tcall.had THEN 0 ELSE 1)

\* a team of MaxThreads threads has completed a call, made with the cursor on
\* a node without a child of that label, that created the one node
C1_Witness ==
  /\ TeamCallDone
  /\ team = MaxThreads
  /\ ~tcall.had
  /\ Len(timers) = tcall.len + 1
  /\ Node(timers, tcall.len).label = tcall.label

\* C2: after the barrier every thread of the team returns the same id, the
\* id of the child of currentId with the given label.
C2_EveryThreadReturnsTheChildId ==
  TeamCallDone =>
    \A t \in DOMAIN tret : tret[t] = getChildId(timers, currentId, tcall.label)

\* C7: getHash(id) never returns 0, whatever the node-level hashes of the
\* node and its children, sums that are multiples of the maximum int included.
C7_GetHashNeverZero ==
  result.op = "getHash" => result.value # 0

\* the two trees have the same nodes but for one string of one node
DifferInOneString ==
  /\ Len(timers) = Len(timersB)
  /\ \E i \in 1 .. Len(timers) :
       /\ i > 1
       /\ timers[i] # timersB[i]
       /\ \/ [timers[i] EXCEPT !.label = timersB[i].label] = timersB[i]
          \/ [timers[i] EXCEPT !.groups = timersB[i].groups] = timersB[i]
       /\ TimerDataGetHash(timers[i]) # TimerDataGetHash(timersB[i])
       /\ \A j \in 1 .. Len(timers) : j # i => timers[j] = timersB[j]

\* C8: two trees built by the same calls but for one label (or group) of one
\* node, at any depth below the root, have different getHash(0), the node
\* hashes of the two nodes being different (all sums of the model are far
\* below the maximum int, so that none collide by reduction).
C8_RootHashSeesEveryString ==
  (status = "running" /\ statusB = "running" /\ DifferInOneString) =>
    getHash(NodeHashes(timers), timers, 0) # getHash(NodeHashes(timersB), timersB, 0)

\* C9: two trees on which the same calls were made have the same nodes and
\* equal getHash(id) for every id.
C9_SameCallsSameHashes ==
  (status = "running" /\ statusB = "running" /\ ~renamed) =>
    /\ Len(timers) = Len(timersB)
    /\ \A id \in Ids :
         getHash(NodeHashes(timers), timers, id)
           = getHash(NodeHashes(timersB), timersB, id)

\* the proper ancestors of node n, by its parentId links
RECURSIVE Ancestors(_, _)
Ancestors(tm, n) ==
  IF Node(tm, n).parentId < 0 THEN {}
  ELSE {Node(tm, n).parentId} \cup Ancestors(tm, Node(tm, n).parentId)

InSubtree(tm, n, id) == n = id \/ id \in Ancestors(tm, n)

\* the nodes of the subtree of id that belong to group and have no proper
\* ancestor inside that subtree that does
TopmostOfGroup(tm, group, id) ==
  { n \in 0 .. Len(tm) - 1 :
      /\ InSubtree(tm, n, id)
      /\ InGroups(Node(tm, n).groups, group)
      /\ \A a \in Ancestors(tm, n) :
           InSubtree(tm, a, id) => ~InGroups(Node(tm, a).groups, group) }

RECURSIVE SumOfAverageTimes(_, _)
SumOfAverageTimes(tm, S) ==
  IF S = {} THEN 0
  ELSE LET n == CHOOSE x \in S : TRUE
       IN  TimerDataAverageTime(Node(tm, n)) + SumOfAverageTimes(tm, S \ {n})

\* C10: getGroupTime(group, id) is the sum of the average times of the nodes
\* of the subtree of id that belong to group and have no proper ancestor in
\* that subtree belonging to group.
C10_GroupTimeCountsTopmostOnly ==
  result.op = "getGroupTime" =>
    result.value =
      SumOfAverageTimes(timers, TopmostOfGroup(timers, result.group, result.id))

\* the group time of a node of the group with a descendant of the group is
\* taken, and is the node's own average time
C10_Witness ==
  /\ result.op = "getGroupTime"
  /\ InGroups(Node(timers, result.id).groups, result.group)
  /\ \E n \in Ids :
       /\ result.id \in Ancestors(timers, n)
       /\ InGroups(Node(timers, n).groups, result.group)
       /\ TimerDataAverageTime(Node(timers, n)) > 0
  /\ result.value = TimerDataAverageTime(Node(timers, result.id))
  /\ result.value > 0

\* --------------------------------------------------------- getFullLabel
\* a std::string as the sequence of its characters
Chars(str) ==
  CASE str = "" -> <<>>
    [] str = "A" -> <<"A">>
    [] str = "B" -> <<"B">>
    [] str = "total" -> <<"t", "o", "t", "a", "l">>

\* while(id>0){ labels.push_back(timers[id].getLabel()); id = timers[id].getParentId(); }
RECURSIVE LabelsToRoot(_, _)
LabelsToRoot(tm, id) ==
  IF id > 0 THEN <<Node(tm, id).label>> \o LabelsToRoot(tm, Node(tm, id).parentId)
  ELSE <<>>

\* the same walk, not stopping before the root
RECURSIVE LabelsThroughRoot(_, _)
LabelsThroughRoot(tm, id) ==
  IF id >= 0 THEN <<Node(tm, id).label>> \o LabelsThroughRoot(tm, Node(tm, id).parentId)
  ELSE <<>>

\* for (it = labels.begin(); ...) { fullLabel += *it; fullLabel += "\\"; }
RECURSIVE ForwardWithBackslash(_, _)
ForwardWithBackslash(labels, fullLabel) ==
  IF labels = <<>> THEN fullLabel
  ELSE ForwardWithBackslash(Tail(labels), fullLabel \o Chars(Head(labels)) \o <<"\\">>)

\* for (rit = labels.rbegin(); ...) { fullLabel += "/"; fullLabel += *rit; }
RECURSIVE BackwardWithSlash(_, _)
BackwardWithSlash(labels, fullLabel) ==
  IF labels = <<>> THEN fullLabel
  ELSE BackwardWithSlash(SubSeq(labels, 1, Len(labels) - 1),
                         fullLabel \o <<"/">> \o Chars(labels[Len(labels)]))

\* getFullLabel that names the root as well
getFullLabelWithRoot(tm, id, reverse) ==
  IF reverse THEN ForwardWithBackslash(LabelsThroughRoot(tm, id), <<>>)
  ELSE BackwardWithSlash(LabelsThroughRoot(tm, id), <<>>)

\* TimerTree::getFullLabel(id, reverse)
getFullLabel(tm, id, reverse) ==
  IF reverse THEN ForwardWithBackslash(LabelsToRoot(tm, id), <<>>)
  ELSE BackwardWithSlash(LabelsToRoot(tm, id), <<>>)

\* nodes of the trees whose full label is taken
MaxLabelNodes == 4

LabelInit ==
  /\ timers \in TreesUpTo(MaxLabelNodes, Labels, {<<>>})
  /\ currentId = 0
  /\ NoCalls
  /\ nodeHash = <<>>

GetFullLabel(id, reverse) ==
  /\ result' = [NoQuery EXCEPT !.op = "getFullLabel", !.id = id, !.reverse = reverse,
                               !.value = getFullLabel(timers, id, reverse)]
  /\ UNCHANGED <<timers, currentId, callStack, status, debug, calls, nest, last,
                 teamVars, nodeHash, pairVars>>

LabelNext == \E id \in Ids, reverse \in BOOLEAN : GetFullLabel(id, reverse)

LabelSpec == LabelInit /\ [][LabelNext]_vars

\* the ids of the nodes from the outermost non-root ancestor of id down to id
RECURSIVE PathFromRoot(_, _)
PathFromRoot(tm, id) ==
  IF id = 0 THEN <<>> ELSE Append(PathFromRoot(tm, Node(tm, id).parentId), id)

RECURSIVE Concat(_)
Concat(strs) == IF strs = <<>> THEN <<>> ELSE Head(strs) \o Concat(Tail(strs))

Reversed(s) == [i \in 1 .. Len(s) |-> s[Len(s) + 1 - i]]

\* the chain root -> A -> B ends in node id
ChainAB(tm, id) ==
  /\ id > 0 /\ Node(tm, id).label = "B"
  /\ Node(tm, id).parentId > 0
  /\ Node(tm, Node(tm, id).parentId).label = "A"
  /\ Node(tm, Node(tm, id).parentId).parentId = 0

\* C11: getFullLabel(id, false) is, from the outermost non-root ancestor down
\* to the node, "/" followed by the label; getFullLabel(id, true) is, from
\* the node up to the outermost non-root ancestor, the label followed by a
\* backslash; the root's label never appears, getFullLabel(0, *) is empty,
\* and the chain root -> A -> B gives "/A/B" and "B\A\".
C11_FullLabelIsThePath ==
  result.op = "getFullLabel" =>
    LET path == PathFromRoot(timers, result.id)
        name(i) == Chars(Node(timers, path[i]).label)
    IN  /\ ~result.reverse =>
             result.value = Concat([i \in 1 .. Len(path) |-> <<"/">> \o name(i)])
        /\ result.reverse =>
             result.value = Concat(Reversed([i \in 1 .. Len(path) |-> name(i) \o <<"\\">>]))
        /\ result.id = 0 => result.value = <<>>
        /\ ChainAB(timers, result.id) =>
             result.value = IF result.reverse THEN <<"B", "\\", "A", "\\">>
                            ELSE <<"/", "A", "/", "B">>

\* the full label of the node B of a chain root -> A -> B was taken in
\* reverse order and is "B\A\"
C11_Witness ==
  /\ result.op = "getFullLabel"
  /\ result.reverse
  /\ ChainAB(timers, result.id)
  /\ result.value = <<"B", "\\", "A", "\\">>

\* ------------------------------------- resetTime and shiftActiveStartTime
\* for(auto &childId : timers[id].getChildIds()) timers[childId].resetTime(resetWallTime);
RECURSIVE ResetChildren(_, _, _)
ResetChildren(tm, ids, resetWallTime) ==
  IF ids = <<>> THEN tm
  ELSE ResetChildren([tm EXCEPT ![Head(ids) + 1] = TimerDataResetTime(@, resetWallTime)],
                     Tail(ids), resetWallTime)

\* a reset that descends into the whole subtree of id
RECURSIVE resetTimeOfSubtree(_, _, _)
resetTimeOfSubtree(tm, resetWallTime, id) ==
  LET RECURSIVE OfChildren(_, _)
      OfChildren(t, ids) ==
        IF ids = <<>> THEN t
        ELSE OfChildren(resetTimeOfSubtree(t, resetWallTime, Head(ids)), Tail(ids))
  IN  OfChildren([tm EXCEPT ![id + 1] = TimerDataResetTime(@, resetWallTime)],
                 Node(tm, id).childIds)

\* TimerTree::resetTime(resetWallTime, id)
resetTime(tm, resetWallTime, id) ==
  ResetChildren([tm EXCEPT ![id + 1] = TimerDataResetTime(@, resetWallTime)],
                Node(tm, id).childIds, resetWallTime)

\* for(auto &childId : timers[id].getChildIds()) timers[childId].shiftActiveStartTime(shiftTime);
RECURSIVE ShiftChildren(_, _, _)
ShiftChildren(tm, ids, shiftTime) ==
  IF ids = <<>> THEN tm
  ELSE ShiftChildren([tm EXCEPT ![Head(ids) + 1] = TimerDataShiftActiveStartTime(@, shiftTime)],
                     Tail(ids), shiftTime)

\* TimerTree::shiftActiveStartTime(shiftTime, id)
shiftActiveStartTime(tm, shiftTime, id) ==
  ShiftChildren([tm EXCEPT ![id + 1] = TimerDataShiftActiveStartTime(@, shiftTime)],
                Node(tm, id).childIds, shiftTime)

\* nodes of the trees that are reset and shifted, and calls made on one
MaxAdminNodes == 3
MaxAdminCalls == 2

ResetWallTimes == {0, 5}
ShiftTimes == {1}
\* accumulated times a started node may have
AdminTimes == {1, 2}

\* the tree after start calls have moved the cursor down to node c: the nodes
\* from the root to c are active, every node has been started once and has
\* accumulated time f[i]
Timed(tm, c, f) ==
  [i \in 1 .. Len(tm) |->
     [tm[i] EXCEPT !.count = 1, !.time = f[i],
                   !.active = (i - 1 = c \/ i - 1 \in Ancestors(tm, c))]]

AdminInit ==
  /\ \E tm \in TreesUpTo(MaxAdminNodes, Labels, {<<>>}) :
       \E c \in 0 .. Len(tm) - 1, f \in [1 .. Len(tm) -> AdminTimes] :
         /\ timers = Timed(tm, c, f)
         /\ currentId = c
  /\ NoCalls
  /\ nodeHash = <<>>

AdminCall(op, id, tm) ==
  /\ calls < MaxAdminCalls
  /\ calls' = calls + 1
  /\ timers' = tm
  /\ result' = [NoQuery EXCEPT !.op = op, !.id = id, !.before = timers,
                               !.cur = currentId]
  /\ UNCHANGED <<currentId, callStack, status, debug, nest, last,
                 teamVars, nodeHash, pairVars>>

ResetTime(resetWallTime, id) ==
  AdminCall("resetTime", id, resetTime(timers, resetWallTime, id))

ShiftActiveStartTime(shiftTime, id) ==
  AdminCall("shiftActiveStartTime", id, shiftActiveStartTime(timers, shiftTime, id))

AdminNext ==
  \/ \E r \in ResetWallTimes, id \in Ids : ResetTime(r, id)
  \/ \E s \in ShiftTimes, id \in Ids : ShiftActiveStartTime(s, id)

AdminSpec == AdminInit /\ [][AdminNext]_vars

\* what of a node is not its timing state, and its call count
Untimed(n) == [n EXCEPT !.active = FALSE, !.time = 0, !.startTime = 0]

\* C12: resetTime(r, id) and shiftActiveStartTime(s, id) change the timing
\* state of node id and of its direct children only: every other node, the
\* call counts, the structure of the tree and currentId are as before.
C12_OnlyNodeAndChildrenChange ==
  result.op \in {"resetTime", "shiftActiveStartTime"} =>
    /\ currentId = result.cur
    /\ Len(timers) = Len(result.before)
    /\ \A i \in 1 .. Len(timers) :
         /\ Untimed(timers[i]) = Untimed(result.before[i])
         /\ (i - 1 # result.id /\ result.before[i].parentId # result.id)
              => timers[i] = result.before[i]

\* resetTime on a node with a child and a grandchild zeroed the times of the
\* node and the child and left the grandchild's time
C12_Witness ==
  /\ result.op = "resetTime"
  /\ \E c, g \in Ids :
       /\ Node(timers, c).parentId = result.id
       /\ Node(timers, g).parentId = c
       /\ Node(result.before, c).time > 0
       /\ Node(timers, result.id).time = 0
       /\ Node(timers, c).time = 0
       /\ Node(timers, g).time = Node(result.before, g).time
       /\ Node(timers, g).time > 0

\* ------------------------------------------------ stop with another id
StopByIdOps == {"stop(id)", "stop(id,w)", "stop(id,w,l)"}

\* this step is a stop-by-id call whose id is not currentId
MismatchedStop ==
  /\ calls' = calls + 1
  /\ last'.op \in StopByIdOps
  /\ last'.id # currentId

\* the call returned false and changed neither currentId nor any node
Rejected ==
  /\ last'.done /\ last'.retOk = FALSE
  /\ timers' = timers /\ currentId' = currentId
  /\ status' = "running"

\* C13 as stated: every stop-by-id call whose id differs from currentId
\* returns false and leaves currentId and timers as they were.
C13_MismatchedStopIsRejected ==
  [][MismatchedStop => Rejected]_vars

\* C13 amended: the same, in a build that defines DEBUG_PHIPROF_TIMERS.
C13_MismatchedStopIsRejectedInDebugBuilds ==
  [][(debug /\ MismatchedStop) => Rejected]_vars

\* in a debug build stop(id) was called with the cursor on another, existing
\* node and returned false
C13_Witness ==
  /\ debug
  /\ last.op = "stop(id)"
  /\ Valid(timers, last.node) /\ last.id # last.node
  /\ last.retOk = FALSE
  /\ currentId = last.node
  /\ status = "running"

\* ------------------------------------------------- the cursor invariants
\* C14: in every state reached from construction by start and stop calls
\* (a stop with the cursor on the root included) currentId is an index into
\* timers and the node it names is active.
C14_CursorNamesAnActiveNode ==
  status = "running" => (Valid(timers, currentId) /\ Node(timers, currentId).active)

\* the nodes on the parentId path from the root to node c
PathTo(tm, c) == IF Valid(tm, c) THEN {c} \cup Ancestors(tm, c) ELSE {}

\* C15: in every reachable state the active nodes are exactly the nodes on
\* the parentId path from the root to currentId.
C15_ActiveNodesAreThePathToCursor ==
  status = "running" =>
    { i \in Ids : Node(timers, i).active } = PathTo(timers, currentId)

\* --------------------------------------------------- the shape of timers
\* how many times id i occurs in the child ids ids
Occurrences(ids, i) == Cardinality({k \in 1 .. Len(ids) : ids[k] = i})

\* C16: the node at index i has id i, and every node but the root has a
\* parent id in 0 .. id - 1 and occurs exactly once in its parent's child
\* ids, after any sequence of calls.
C16_IdsDenseParentsBelow ==
  \A i \in Ids :
    /\ Node(timers, i).id = i
    /\ i > 0 =>
         /\ Node(timers, i).parentId \in 0 .. i - 1
         /\ Occurrences(Node(timers, Node(timers, i).parentId).childIds, i) = 1

\* C17: no two nodes with the same parent have the same label, after any
\* sequence of initializeTimer, start and stop calls.
C17_SiblingsHaveDistinctLabels ==
  \A i, j \in Ids :
    (i # j /\ i > 0 /\ j > 0
       /\ Node(timers, i).parentId = Node(timers, j).parentId)
      => Node(timers, i).label # Node(timers, j).label

\* ------------------------------------------- the barrier of initializeTimer
\* the master has left its region: its lookup is done and, if the node the
\* cursor names had no such child, the node it created is in timers
MasterDone ==
  /\ tpc[0] \in {"barrier", "returned"}
  /\ tid[0].set
  /\ (tcall.pre /\ ~tcall.had) =>
       (tid[0].val = tcall.len /\ Len(timers) = tcall.len + 1)

\* C18: in a collective initializeTimer call no thread returns before the
\* master has finished its lookup-or-create, the append included, and during
\* the call no thread but the master writes to timers.
C18_NoReturnBeforeTheMasterIsDone ==
  [][ /\ (\E t \in DOMAIN tpc' : tpc'[t] = "returned") => MasterDone'
      /\ (~TeamDone /\ timers' # timers) => (tpc[0] = "create" /\ tpc'[0] = "barrier")
    ]_vars

\* a thread other than the master has returned from a call in which the
\* master created the node, while another thread is still at the barrier
C18_Witness ==
  /\ team = MaxThreads
  /\ tcall.pre
  /\ tpc[1] = "returned"
  /\ tpc[2] = "barrier"
  /\ tid[0] = [set |-> TRUE, val |-> tcall.len]
  /\ Len(timers) = tcall.len + 1

\* ------------------------------------------------------ what start does
\* this step is a call of the given start overload by one thread, made
\* while currentId names an existing node
StartAtNode(op) ==
  /\ calls' = calls + 1
  /\ last'.op = op
  /\ Valid(timers, currentId)

\* C19: start(label) with the cursor on an existing node c leaves currentId
\* on the child of c with that label, created with parent c if there was
\* none, starts it, and returns true exactly when the id of the started node
\* is currentId; start(id) sets currentId to id, starts that node and
\* returns whether id is the cursor.
C19_StartMovesCursorToStartedNode ==
  [][ /\ StartAtNode("start(label)") =>
           LET c == currentId
               k == getChildId(timers, c, last'.label)
               n == currentId'
           IN  /\ status' = "running"
               /\ IF k >= 0 THEN n = k /\ Len(timers') = Len(timers)
                  ELSE n = Len(timers) /\ Len(timers') = Len(timers) + 1
               /\ n = getChildId(timers', c, last'.label)
               /\ Node(timers', n).parentId = c
               /\ Node(timers', n).active
               /\ Node(timers', n).count = (IF k >= 0 THEN Node(timers, k).count ELSE 0) + 1
               /\ last'.retOk = (Node(timers', n).id = currentId')
      /\ StartAtNode("start(id)") =>
           /\ status' = "running"
           /\ currentId' = last'.id
           /\ Node(timers', last'.id).active
           /\ Node(timers', last'.id).count = Node(timers, last'.id).count + 1
           /\ last'.retOk = (last'.id = currentId')
    ]_vars

\* start(label) was called with the cursor on a node other than the root,
\* created the child, moved the cursor to it and returned true
C19_Witness ==
  /\ last.op = "start(label)"
  /\ last.node > 0
  /\ status = "running"
  /\ currentId = Len(timers) - 1
  /\ Node(timers, currentId).parentId = last.node
  /\ Node(timers, currentId).label = last.label
  /\ Node(timers, currentId).active
  /\ Node(timers, currentId).count = 1
  /\ last.retOk

\* ------------------------------------------- what initializeTimer leaves
\* this step is an initializeTimer call
InitializeTimerCall ==
  /\ calls' = calls + 1
  /\ last'.op = "initializeTimer"

\* the call wrote nowhere but at the end of timers, and changed neither
\* currentId nor the active flag of a node
CursorAndActiveFlagsKept ==
  /\ status' = "running"
  /\ currentId' = currentId
  /\ \A i \in Ids : Node(timers', i).active = Node(timers, i).active

\* C20: initializeTimer never changes currentId nor the active flag of any
\* node, and when the node currentId names has a child with the label it
\* leaves timers as it was, whatever groups and work unit label it is given.
C20_InitializeTimerKeepsCursorAndNodes ==
  [][ InitializeTimerCall =>
        /\ CursorAndActiveFlagsKept
        /\ (Valid(timers, currentId) /\ getChildId(timers, currentId, last'.label) >= 0)
             => timers' = timers
    ]_vars

====
